---- MODULE Spec2Model ----
(***************************************************************************)
(* The audit-record lifecycle of the DKA calculator API (src/index.js):    *)
(* POST /calculate creates an audit record, POST /update amends it after   *)
(* the patient-hash check.  Every request is one run of an async handler;  *)
(* an action is one turn of the event loop: a collaborator's promise       *)
(* settles (it returns or it throws) and the handler runs on to its next   *)
(* await or to its response.                                               *)
(***************************************************************************)
EXTENDS Naturals, Sequences, FiniteSets

VARIABLES
  db,       \* the audit table: the rows inserted so far, in insertion order
  nextID,   \* generateAuditID's supply of unused identifiers
  created,  \* history: the rows as insertCalculateData wrote them
  req,      \* per request: the route and the matchedData(req) object; history:
            \* whether the audit ID it names was in the table when it arrived
  pc,       \* per request: the await the handler is suspended at
  loc,      \* per request: the handler's local constants
  resp,     \* per request: the responses sent through res, in order
  calls     \* per request: the functions the handler has called, in order

vars == <<db, nextID, created, req, pc, loc, resp, calls>>

-----------------------------------------------------------------------------
(* Bounds *)

\* Requests the server receives in one behaviour.
MaxRequests == 2

Reqs == 1 .. MaxRequests

-----------------------------------------------------------------------------
(* JavaScript values.  A string is a tagged sequence of characters, so    *)
(* that null, undefined and every string are distinct and comparable.     *)

Null == <<"null">>
Undefined == <<"undefined">>
Str(s) == <<"str", s>>
Num(n) == <<"num", n>>

IsStr(v) == Len(v) = 2 /\ v[1] = "str"

\* ToBoolean: undefined, null, "" and 0 are falsy.
Truthy(v) ==
  /\ v # Undefined
  /\ v # Null
  /\ v # Str(<<>>)
  /\ v # Num(0)

\* String(v), as the + operator applies it to a non-string operand.
ToString(v) ==
  IF IsStr(v) THEN v[2]
  ELSE IF v = Undefined THEN <<"u", "n", "d", "e", "f", "i", "n", "e", "d">>
  ELSE <<"n", "u", "l", "l">>

\* a + b on a string and anything.
Plus(a, b) == Str(ToString(a) \o ToString(b))

\* a || b
Or(a, b) == IF Truthy(a) THEN a ELSE b

\* a != b (loose inequality): null and undefined are equal to each other and
\* to nothing else; two strings compare by content.
LooseNotEqual(a, b) ==
  IF a \in {Null, Undefined} /\ b \in {Null, Undefined} THEN FALSE ELSE a # b

\* keys.salt of private/keys.json.
Salt == Str(<<"s", "a", "l", "t">>)

\* crypto.createHash("sha256").update(m).digest("hex"): a string that names
\* its message; distinct messages have distinct digests (collision
\* resistance), and no digest is a message of the model.
Sha256Hex(m) == Str(<<"sha256:">> \o m[2])

\* Mutant: the digest is taken of the pre-hash alone, without keys.salt.
rehashPatientHashNoSalt(patientHash) == Sha256Hex(Plus(patientHash, Str(<<>>)))

rehashPatientHash(patientHash) == Sha256Hex(Plus(patientHash, Salt))

-----------------------------------------------------------------------------
(* Request bodies, as matchedData(req) hands them to the handlers. *)

PreHashA == Str(<<"a">>)
PreHashB == Str(<<"b">>)
Postcode == Str(<<"S", "W", "1">>)
FactorsX == Str(<<"x">>)
FactorsY == Str(<<"y">>)
ClientIP == Str(<<"i", "p">>)
Decile == Num(5)

\* The optional numeric fields of a submission: one given as zero, one given
\* as a positive number, one left out.
Measurements ==
  {[bicarbonate |-> Num(0), glucose |-> Num(7), ketones |-> Undefined]}

\* /calculate: the optional pre-hash, the optional postcode, the optional
\* numeric fields, and the episode, which calculateVariables accepts or
\* rejects.
CalcInputs ==
  {[patientHash |-> h, patientPostcode |-> p, episode |-> e,
    bicarbonate |-> m.bicarbonate, glucose |-> m.glucose, ketones |-> m.ketones] :
     h \in {Undefined, PreHashA}, p \in {Undefined, Postcode},
     e \in {"valid", "invalid"}, m \in Measurements}

\* The audit IDs an update names: issued ones, and ones not issued yet.
NamedAuditIDs == {1, 2}

\* /update: the audit ID the client names, the pre-hash, the amendment.
UpdateInputs ==
  [auditID : NamedAuditIDs,
   patientHash : {PreHashA, PreHashB},
   preventableFactors : {FactorsX, FactorsY}]

-----------------------------------------------------------------------------
(* The collaborators index.js requires. *)

Obj(fields) == <<"obj", fields>>

\* calculateVariables(data): pure; errors is non-empty for an episode the
\* clinical rules reject.
calculateVariables(data) ==
  [errors |-> IF data.episode = "invalid" THEN <<"episode">> ELSE <<>>,
   results |-> <<"results of", data.episode>>]

\* generateAuditID(): an identifier that was never issued before, taken from
\* the supply, and the supply that is left.
generateAuditID(supply) == [auditID |-> supply, supply |-> supply + 1]

\* What getImdDecile(postcode) may resolve to: a decile, or none.
ImdDecileResults == {Decile, Null}

\* The row insertCalculateData(data, imdDecile, auditID, patientHash,
\* clientIP, calculations) commits, in one statement.
NewRow(data, imdDecile, auditID, patientHash, clientIP, calculations) ==
  [auditID |-> auditID,
   patientHash |-> patientHash,
   imdDecile |-> imdDecile,
   clientIP |-> clientIP,
   inputs |-> [episode |-> data.episode, patientPostcode |-> data.patientPostcode,
               bicarbonate |-> data.bicarbonate, glucose |-> data.glucose,
               ketones |-> data.ketones],
   calculations |-> calculations,
   preventableFactors |-> Null]

insertCalculateData(table, data, imdDecile, auditID, patientHash, clientIP, calculations) ==
  Append(table, NewRow(data, imdDecile, auditID, patientHash, clientIP, calculations))

RowsOf(table, auditID) == {i \in 1 .. Len(table) : table[i].auditID = auditID}

\* updateCheck(auditID): the patientHash of the row with that audit ID, or
\* undefined when there is none.
updateCheck(table, auditID) ==
  IF RowsOf(table, auditID) = {} THEN Undefined
  ELSE LET i == CHOOSE j \in RowsOf(table, auditID) :
                  \A k \in RowsOf(table, auditID) : j <= k
       IN Obj([patientHash |-> table[i].patientHash])

\* updateData(data): writes the amendment fields of the rows with
\* data.auditID, in one statement.
updateData(table, data) ==
  [i \in 1 .. Len(table) |->
     IF table[i].auditID = data.auditID
     THEN [table[i] EXCEPT !.preventableFactors = data.preventableFactors]
     ELSE table[i]]

-----------------------------------------------------------------------------
(* The handlers. *)

\* Mutant: the gate lets a single error through.
HasDomainErrorsOffByOne(calculations) == Len(calculations.errors) > 1

\* calculations.errors.length
HasDomainErrors(calculations) == Len(calculations.errors) # 0

\* Mutant: /calculate hashes the pre-hash without the salt.
DerivePatientHashUnsalted(data) ==
  IF Truthy(data.patientHash) THEN Sha256Hex(data.patientHash) ELSE Null

\* data.patientHash ? rehashPatientHash(data.patientHash) : null
DerivePatientHash(data) ==
  IF Truthy(data.patientHash) THEN rehashPatientHash(data.patientHash) ELSE Null

\* data.bicarbonate = data.bicarbonate || null, and so for glucose and ketones
Normalise(data) ==
  [data EXCEPT !.bicarbonate = Or(@, Null),
               !.glucose = Or(@, Null),
               !.ketones = Or(@, Null)]

\* No audit ID is 0 (generateAuditID counts from 1): 0 stands for the local
\* auditID before it is assigned, so that it compares with an audit ID.
NoLocals ==
  [data |-> Undefined, calculations |-> Undefined, patientHash |-> Undefined,
   imdDecile |-> Undefined, auditID |-> 0, check |-> Undefined]

NoRequest == [route |-> "none", data |-> Undefined, existed |-> FALSE]

\* The table the server starts on: empty, or holding a row an earlier run of
\* /calculate inserted (for a submission with a pre-hash, or without one).
InitialTables ==
  {<<>>}
  \cup {insertCalculateData(<<>>, Normalise(data), Null, 1, DerivePatientHash(data), ClientIP,
                            calculateVariables(data)) :
          data \in {d \in CalcInputs : /\ ~HasDomainErrors(calculateVariables(d))
                                       /\ ~Truthy(d.patientPostcode)}}

Init ==
  /\ db \in InitialTables
  /\ nextID = Len(db) + 1
  /\ created = db
  /\ req = [r \in Reqs |-> NoRequest]
  /\ pc = [r \in Reqs |-> "idle"]
  /\ loc = [r \in Reqs |-> NoLocals]
  /\ resp = [r \in Reqs |-> <<>>]
  /\ calls = [r \in Reqs |-> <<>>]

\* Requests are numbered in their order of arrival.
Arrives(r) ==
  /\ pc[r] = "idle"
  /\ IF r = 1 THEN TRUE ELSE pc[r - 1] # "idle"

\* res.status(status).json(body), then the handler returns: its locals die.
Respond(r, status, body) ==
  /\ resp' = [resp EXCEPT ![r] = Append(@, [status |-> status, body |-> body])]
  /\ pc' = [pc EXCEPT ![r] = "done"]
  /\ loc' = [loc EXCEPT ![r] = NoLocals]

\* The handler calls the functions fs and suspends at the await named at.
Await(r, fs, at, locals) ==
  /\ calls' = [calls EXCEPT ![r] = @ \o fs]
  /\ pc' = [pc EXCEPT ![r] = at]
  /\ loc' = [loc EXCEPT ![r] = locals]
  /\ UNCHANGED resp

\* Mutant: the catch swallows the error and sends nothing.
CatchSilent(r) ==
  /\ pc' = [pc EXCEPT ![r] = "done"]
  /\ loc' = [loc EXCEPT ![r] = NoLocals]
  /\ UNCHANGED <<db, nextID, created, req, calls, resp>>

\* catch (error): res.status(500).json(error.message)
Catch(r) ==
  /\ Respond(r, 500, [message |-> "error.message"])
  /\ UNCHANGED <<db, nextID, created, req, calls>>

\* POST /calculate, from the request to the first await (or the 400).
CalculateStart(r, data) ==
  /\ Arrives(r)
  /\ req' = [req EXCEPT ![r] = [route |-> "calculate", data |-> data,
                                 existed |-> FALSE]]
  /\ UNCHANGED <<db, nextID, created>>
  /\ LET calculations == calculateVariables(data)
         locals == [NoLocals EXCEPT !.data = Normalise(data),
                                    !.calculations = calculations,
                                    !.patientHash = DerivePatientHash(data)]
     IN IF HasDomainErrors(calculations)
        THEN /\ Respond(r, 400, [errors |-> calculations.errors])
             /\ calls' = [calls EXCEPT ![r] = <<"calculateVariables">>]
        ELSE IF Truthy(data.patientPostcode)
        THEN Await(r, <<"calculateVariables">>
                        \o (IF Truthy(data.patientHash)
                            THEN <<"rehashPatientHash">> ELSE <<>>)
                        \o <<"getImdDecile">>,
                   "getImdDecile", locals)
        ELSE Await(r, <<"calculateVariables">>
                        \o (IF Truthy(data.patientHash)
                            THEN <<"rehashPatientHash">> ELSE <<>>)
                        \o <<"generateAuditID">>,
                   "generateAuditID", [locals EXCEPT !.imdDecile = Null])

\* await getImdDecile(data.patientPostcode) resolves; on to generateAuditID.
GetImdDecileReturns(r, imdDecile) ==
  /\ pc[r] = "getImdDecile"
  /\ Await(r, <<"generateAuditID">>, "generateAuditID",
           [loc[r] EXCEPT !.imdDecile = imdDecile])
  /\ UNCHANGED <<db, nextID, created, req>>

GetImdDecileThrows(r) ==
  /\ pc[r] = "getImdDecile"
  /\ Catch(r)

\* Mutant: the 200 is sent as soon as the audit ID is known, before the
\* insert has resolved.
GenerateAuditIDReturnsRespondsFirst(r) ==
  /\ pc[r] = "generateAuditID"
  /\ nextID' = generateAuditID(nextID).supply
  /\ calls' = [calls EXCEPT ![r] = @ \o <<"insertCalculateData">>]
  /\ pc' = [pc EXCEPT ![r] = "insertCalculateData"]
  /\ loc' = [loc EXCEPT ![r] = [loc[r] EXCEPT !.auditID = generateAuditID(nextID).auditID]]
  /\ resp' = [resp EXCEPT ![r] = Append(@, [status |-> 200,
                 body |-> [auditID |-> generateAuditID(nextID).auditID,
                           calculations |-> loc[r].calculations]])]
  /\ UNCHANGED <<db, created, req>>

\* await generateAuditID() resolves; on to insertCalculateData.
GenerateAuditIDReturns(r) ==
  /\ pc[r] = "generateAuditID"
  /\ nextID' = generateAuditID(nextID).supply
  /\ Await(r, <<"insertCalculateData">>, "insertCalculateData",
           [loc[r] EXCEPT !.auditID = generateAuditID(nextID).auditID])
  /\ UNCHANGED <<db, created, req>>

GenerateAuditIDThrows(r) ==
  /\ pc[r] = "generateAuditID"
  /\ Catch(r)

\* Mutant: the insert is issued twice (a retry that does not check the first).
InsertCalculateDataReturnsTwice(r) ==
  /\ pc[r] = "insertCalculateData"
  /\ LET once == insertCalculateData(db, loc[r].data, loc[r].imdDecile, loc[r].auditID,
                                     loc[r].patientHash, ClientIP, loc[r].calculations)
     IN /\ db' = Append(once, once[Len(once)])
        /\ created' = Append(Append(created, once[Len(once)]), once[Len(once)])
  /\ Respond(r, 200, [auditID |-> loc[r].auditID,
                      calculations |-> loc[r].calculations])
  /\ UNCHANGED <<nextID, req, calls>>

\* Mutant: the response hands the stored patientHash back to the client.
InsertCalculateDataReturnsEchoesHash(r) ==
  /\ pc[r] = "insertCalculateData"
  /\ db' = insertCalculateData(db, loc[r].data, loc[r].imdDecile, loc[r].auditID,
                               loc[r].patientHash, ClientIP, loc[r].calculations)
  /\ created' = Append(created, db'[Len(db')])
  /\ Respond(r, 200, [auditID |-> loc[r].auditID,
                      patientHash |-> loc[r].patientHash,
                      calculations |-> loc[r].calculations])
  /\ UNCHANGED <<nextID, req, calls>>

\* await insertCalculateData(...) resolves: the row is committed; res.json.
InsertCalculateDataReturns(r) ==
  /\ pc[r] = "insertCalculateData"
  /\ db' = insertCalculateData(db, loc[r].data, loc[r].imdDecile, loc[r].auditID,
                               loc[r].patientHash, ClientIP, loc[r].calculations)
  /\ created' = Append(created, db'[Len(db')])
  /\ Respond(r, 200, [auditID |-> loc[r].auditID,
                      calculations |-> loc[r].calculations])
  /\ UNCHANGED <<nextID, req, calls>>

\* Mutant: the throw comes after the row was written, and the row stays.
InsertCalculateDataThrowsAfterCommit(r) ==
  /\ pc[r] = "insertCalculateData"
  /\ db' = insertCalculateData(db, loc[r].data, loc[r].imdDecile, loc[r].auditID,
                               loc[r].patientHash, ClientIP, loc[r].calculations)
  /\ created' = Append(created, db'[Len(db')])
  /\ Respond(r, 500, [message |-> "error.message"])
  /\ UNCHANGED <<nextID, req, calls>>

InsertCalculateDataThrows(r) ==
  /\ pc[r] = "insertCalculateData"
  /\ Catch(r)

\* POST /update, from the request to await updateCheck(data.auditID).
UpdateStart(r, data) ==
  /\ Arrives(r)
  /\ req' = [req EXCEPT ![r] = [route |-> "update", data |-> data,
                                 existed |-> RowsOf(db, data.auditID) # {}]]
  /\ Await(r, <<"updateCheck">>, "updateCheck", NoLocals)
  /\ UNCHANGED <<db, nextID, created>>

\* !check
CheckMissing(check) == ~Truthy(check)

\* Mutant: the comparison inverted (== for !=).
HashMismatchInverted(check, patientHash) ==
  ~LooseNotEqual(check[2].patientHash, patientHash)

\* Mutant: a row without a stored hash is not compared at all.
HashMismatchSkipsNull(check, patientHash) ==
  /\ Truthy(check[2].patientHash)
  /\ LooseNotEqual(check[2].patientHash, patientHash)

\* check.patientHash != patientHash
HashMismatch(check, patientHash) == LooseNotEqual(check[2].patientHash, patientHash)

\* Mutant: the pre-hash is rehashed before the lookup's result is looked at.
UpdateCheckReturnsHashFirst(r) ==
  /\ pc[r] = "updateCheck"
  /\ UNCHANGED <<db, nextID, created, req>>
  /\ LET data == req[r].data
         check == updateCheck(db, data.auditID)
         patientHash == rehashPatientHash(data.patientHash)
     IN IF CheckMissing(check)
        THEN /\ Respond(r, 404, [message |-> "Audit ID not found in database: ",
                                 auditID |-> data.auditID])
             /\ calls' = [calls EXCEPT ![r] = @ \o <<"rehashPatientHash">>]
        ELSE IF HashMismatch(check, patientHash)
        THEN /\ Respond(r, 401, [message |-> "Patient NHS number or date of birth do not match for episode with audit ID: ",
                                 auditID |-> data.auditID])
             /\ calls' = [calls EXCEPT ![r] = @ \o <<"rehashPatientHash">>]
        ELSE Await(r, <<"rehashPatientHash", "updateData">>, "updateData",
                   [NoLocals EXCEPT !.check = check, !.patientHash = patientHash])

\* Mutant: the 401 branch lacks its return and runs on into updateData.
UpdateCheckReturnsNoReturn(r) ==
  /\ pc[r] = "updateCheck"
  /\ UNCHANGED <<db, nextID, created, req>>
  /\ LET data == req[r].data
         check == updateCheck(db, data.auditID)
         patientHash == rehashPatientHash(data.patientHash)
     IN IF CheckMissing(check)
        THEN /\ Respond(r, 404, [message |-> "Audit ID not found in database: ",
                                 auditID |-> data.auditID])
             /\ UNCHANGED calls
        ELSE /\ resp' = [resp EXCEPT ![r] =
                          IF HashMismatch(check, patientHash)
                          THEN Append(@, [status |-> 401,
                                          body |-> [message |-> "Patient NHS number or date of birth do not match for episode with audit ID: ",
                                                    auditID |-> data.auditID]])
                          ELSE @]
             /\ calls' = [calls EXCEPT ![r] = @ \o <<"rehashPatientHash", "updateData">>]
             /\ pc' = [pc EXCEPT ![r] = "updateData"]
             /\ loc' = [loc EXCEPT ![r] = [NoLocals EXCEPT !.check = check,
                                                          !.patientHash = patientHash]]

\* await updateCheck(data.auditID) resolves: the 404, the 401, or on to
\* updateData.
UpdateCheckReturns(r) ==
  /\ pc[r] = "updateCheck"
  /\ UNCHANGED <<db, nextID, created, req>>
  /\ LET data == req[r].data
         check == updateCheck(db, data.auditID)
         patientHash == rehashPatientHash(data.patientHash)
     IN IF CheckMissing(check)
        THEN /\ Respond(r, 404, [message |-> "Audit ID not found in database: ",
                                 auditID |-> data.auditID])
             /\ UNCHANGED calls
        ELSE IF HashMismatch(check, patientHash)
        THEN /\ Respond(r, 401, [message |-> "Patient NHS number or date of birth do not match for episode with audit ID: ",
                                 auditID |-> data.auditID])
             /\ calls' = [calls EXCEPT ![r] = @ \o <<"rehashPatientHash">>]
        ELSE Await(r, <<"rehashPatientHash", "updateData">>, "updateData",
                   [NoLocals EXCEPT !.check = check, !.patientHash = patientHash])

UpdateCheckThrows(r) ==
  /\ pc[r] = "updateCheck"
  /\ Catch(r)

\* Mutant: the update also stores the resubmitted pre-hash as the patientHash.
UpdateDataReturnsWritesHash(r) ==
  /\ pc[r] = "updateData"
  /\ db' = [i \in 1 .. Len(db) |->
             IF db[i].auditID = req[r].data.auditID
             THEN [db[i] EXCEPT !.preventableFactors = req[r].data.preventableFactors,
                                !.patientHash = req[r].data.patientHash]
             ELSE db[i]]
  /\ Respond(r, 200, [message |-> "Audit data update complete"])
  /\ UNCHANGED <<nextID, created, req, calls>>

\* Mutant: the amendment is appended to the stored one instead of replacing it.
UpdateDataReturnsAppends(r) ==
  /\ pc[r] = "updateData"
  /\ db' = [i \in 1 .. Len(db) |->
             IF db[i].auditID = req[r].data.auditID
             THEN [db[i] EXCEPT !.preventableFactors =
                     IF @ = Null THEN req[r].data.preventableFactors
                     ELSE Plus(@, req[r].data.preventableFactors)]
             ELSE db[i]]
  /\ Respond(r, 200, [message |-> "Audit data update complete"])
  /\ UNCHANGED <<nextID, created, req, calls>>

\* Mutant: an amendment is written only where none is stored yet.
UpdateDataReturnsKeepsFirst(r) ==
  /\ pc[r] = "updateData"
  /\ db' = [i \in 1 .. Len(db) |->
             IF db[i].auditID = req[r].data.auditID /\ db[i].preventableFactors = Null
             THEN [db[i] EXCEPT !.preventableFactors = req[r].data.preventableFactors]
             ELSE db[i]]
  /\ Respond(r, 200, [message |-> "Audit data update complete"])
  /\ UNCHANGED <<nextID, created, req, calls>>

\* Mutant: the update has no WHERE clause for the audit ID.
UpdateDataReturnsAllRows(r) ==
  /\ pc[r] = "updateData"
  /\ db' = [i \in 1 .. Len(db) |->
             [db[i] EXCEPT !.preventableFactors = req[r].data.preventableFactors]]
  /\ Respond(r, 200, [message |-> "Audit data update complete"])
  /\ UNCHANGED <<nextID, created, req, calls>>

\* await updateData(data) resolves: the amendment is committed; res.json.
UpdateDataReturns(r) ==
  /\ pc[r] = "updateData"
  /\ db' = updateData(db, req[r].data)
  /\ Respond(r, 200, [message |-> "Audit data update complete"])
  /\ UNCHANGED <<nextID, created, req, calls>>

UpdateDataThrows(r) ==
  /\ pc[r] = "updateData"
  /\ Catch(r)

Next ==
  \E r \in Reqs :
    \/ \E data \in CalcInputs : CalculateStart(r, data)
    \/ \E imdDecile \in ImdDecileResults : GetImdDecileReturns(r, imdDecile)
    \/ GetImdDecileThrows(r)
    \/ GenerateAuditIDReturns(r)
    \/ GenerateAuditIDThrows(r)
    \/ InsertCalculateDataReturns(r)
    \/ InsertCalculateDataThrows(r)
    \/ \E data \in UpdateInputs : UpdateStart(r, data)
    \/ UpdateCheckReturns(r)
    \/ UpdateCheckThrows(r)
    \/ UpdateDataReturns(r)
    \/ UpdateDataThrows(r)

Spec == Init /\ [][Next]_vars

\* The collaborator call the handler of r awaits returns or throws.
Settle(r) ==
  \/ \E imdDecile \in ImdDecileResults : GetImdDecileReturns(r, imdDecile)
  \/ GetImdDecileThrows(r)
  \/ GenerateAuditIDReturns(r)
  \/ GenerateAuditIDThrows(r)
  \/ InsertCalculateDataReturns(r)
  \/ InsertCalculateDataThrows(r)
  \/ UpdateCheckReturns(r)
  \/ UpdateCheckThrows(r)
  \/ UpdateDataReturns(r)
  \/ UpdateDataThrows(r)

\* Every awaited collaborator call eventually returns or throws.
FairSpec == Spec /\ \A r \in Reqs : WF_vars(Settle(r))

-----------------------------------------------------------------------------
(* Vocabulary of the properties. *)

Range(f) == {f[i] : i \in DOMAIN f}

Status(r) == resp[r][Len(resp[r])].status

IsUpdate(r) == req[r].route = "update"
IsCalculate(r) == req[r].route = "calculate"

\* The request has been answered with this status.
Answered(r, status) == pc[r] = "done" /\ Status(r) = status

\* The await the handler of r is suspended at resolves in this step (the
\* promise is fulfilled, not rejected into the catch).
Resolves(r, at) ==
  /\ pc[r] = at
  /\ pc'[r] # at
  /\ ~(pc'[r] = "done" /\ resp'[r][Len(resp'[r])].status = 500)

\* The handler of r sends its response in this step, and it is not the
\* catch's 500.
Answers(r) ==
  /\ pc[r] # "done"
  /\ pc'[r] = "done"
  /\ resp'[r][Len(resp'[r])].status # 500

\* The stored patientHash of every row with this audit ID is the server hash
\* of the pre-hash.
HashStoredFor(auditID, preHash) ==
  /\ RowsOf(db, auditID) # {}
  /\ \A i \in RowsOf(db, auditID) : db[i].patientHash = rehashPatientHash(preHash)

-----------------------------------------------------------------------------
(* C1: updateData is called only for a request whose audit ID has a row    *)
(* and whose pre-hash, rehashed, equals that row's stored patientHash.     *)
C1_UpdateDataOnlyAfterMatch ==
  \A r \in Reqs :
    "updateData" \in Range(calls[r])
      => /\ IsUpdate(r)
         /\ HashStoredFor(req[r].data.auditID, req[r].data.patientHash)

C1_Witness ==
  \E r \in Reqs : "updateData" \in Range(calls[r]) /\ Answered(r, 200)

-----------------------------------------------------------------------------
(* C2: round trip.  After a /calculate with pre-hash H has answered 200    *)
(* with an audit ID, an /update that arrives later with that audit ID and  *)
(* the same H is answered 200 (unless a collaborator throws, which is the  *)
(* catch's 500), and when it is answered the row's amendment field is the  *)
(* submitted one.                                                          *)
RoundTripPair(c, u) ==
  /\ IsCalculate(c)
  /\ Answered(c, 200)
  /\ Truthy(req[c].data.patientHash)
  /\ IsUpdate(u)
  /\ req[u].existed
  /\ req[u].data.auditID = resp[c][1].body.auditID
  /\ req[u].data.patientHash = req[c].data.patientHash

C2_RoundTrip ==
  [][\A c, u \in Reqs :
       RoundTripPair(c, u) /\ Answers(u)
         => /\ Status(u)' = 200
            /\ \A i \in RowsOf(db', req[u].data.auditID) :
                 db'[i].preventableFactors = req[u].data.preventableFactors]_vars

C2_Witness ==
  \E c, u \in Reqs :
    /\ RoundTripPair(c, u)
    /\ Answered(u, 200)
    /\ \E i \in RowsOf(db, req[u].data.auditID) :
         db[i].preventableFactors = req[u].data.preventableFactors

-----------------------------------------------------------------------------
(* C3: when updateCheck returns for an /update whose audit ID has a row    *)
(* and whose rehashed pre-hash differs from the stored patientHash, the    *)
(* request is answered 401, updateData is not called and the table is      *)
(* left as it was.                                                         *)
StoredHashDiffers(r) ==
  /\ IsUpdate(r)
  /\ RowsOf(db, req[r].data.auditID) # {}
  /\ \A i \in RowsOf(db, req[r].data.auditID) :
       db[i].patientHash # rehashPatientHash(req[r].data.patientHash)

C3_MismatchRejected ==
  [][\A r \in Reqs :
       StoredHashDiffers(r) /\ Resolves(r, "updateCheck")
         => /\ pc'[r] = "done"
            /\ Status(r)' = 401
            /\ Len(resp'[r]) = 1
            /\ "updateData" \notin Range(calls'[r])
            /\ db' = db]_vars

C3_Witness ==
  \E r \in Reqs :
    /\ StoredHashDiffers(r)
    /\ Answered(r, 401)
    /\ \E i \in RowsOf(db, req[r].data.auditID) : db[i].patientHash # Null

-----------------------------------------------------------------------------
(* C4: when updateCheck returns for an /update whose audit ID has no row,  *)
(* the request is answered 404 before rehashPatientHash is called,         *)
(* updateData is not called, and no row is created or changed.             *)
C4_UnknownAuditID ==
  [][\A r \in Reqs :
       /\ IsUpdate(r)
       /\ RowsOf(db, req[r].data.auditID) = {}
       /\ Resolves(r, "updateCheck")
       => /\ pc'[r] = "done"
          /\ Status(r)' = 404
          /\ Len(resp'[r]) = 1
          /\ calls'[r] = <<"updateCheck">>
          /\ db' = db]_vars

C4_Witness ==
  \E r \in Reqs :
    /\ IsUpdate(r)
    /\ Answered(r, 404)
    /\ RowsOf(db, req[r].data.auditID) = {}

-----------------------------------------------------------------------------
(* C5: a row created for a submission without a pre-hash has a null        *)
(* patientHash, and no /update against its audit ID, whatever its          *)
(* pre-hash, reaches updateData or is answered 200: one that arrives after *)
(* the row exists is answered 401 (or the catch's 500 when updateCheck     *)
(* throws).                                                                *)
NullHashRows(auditID) ==
  {i \in RowsOf(db, auditID) : db[i].patientHash = Null}

C5_NullHashNeverMatches ==
  /\ \A c \in Reqs :
       IsCalculate(c) /\ Answered(c, 200) /\ ~Truthy(req[c].data.patientHash)
         => NullHashRows(resp[c][1].body.auditID) # {}
  /\ \A u \in Reqs :
       IsUpdate(u) /\ NullHashRows(req[u].data.auditID) # {}
         => /\ "updateData" \notin Range(calls[u])
            /\ pc[u] # "updateData"
            /\ ~Answered(u, 200)
            /\ pc[u] = "done" /\ req[u].existed => Status(u) \in {401, 500}

C5_Witness ==
  \E c, u \in Reqs :
    /\ IsCalculate(c) /\ Answered(c, 200) /\ ~Truthy(req[c].data.patientHash)
    /\ IsUpdate(u) /\ req[u].existed /\ Answered(u, 401)
    /\ req[u].data.auditID = resp[c][1].body.auditID

-----------------------------------------------------------------------------
(* C6: a /calculate whose calculateVariables reports errors is answered    *)
(* 400 at once; getImdDecile, generateAuditID and insertCalculateData are  *)
(* never called for it, and the table and the identifier supply are left   *)
(* as they were.                                                           *)
DomainInvalid(r) ==
  IsCalculate(r) /\ Len(calculateVariables(req[r].data).errors) # 0

C6_DomainErrorGate ==
  /\ [](\A r \in Reqs :
          DomainInvalid(r)
            => /\ resp[r] = <<[status |-> 400,
                               body |-> [errors |-> calculateVariables(req[r].data).errors]]>>
               /\ pc[r] = "done"
               /\ Range(calls[r]) \cap
                    {"getImdDecile", "generateAuditID", "insertCalculateData"} = {})
  /\ [][\A r \in Reqs :
          ~DomainInvalid(r) /\ DomainInvalid(r)'
            => db' = db /\ nextID' = nextID]_vars

C6_Witness ==
  \E r \in Reqs :
    /\ DomainInvalid(r)
    /\ Answered(r, 400)
    /\ \A i \in 1 .. Len(db) : db[i].inputs.episode # "invalid"

-----------------------------------------------------------------------------
-----------------------------------------------------------------------------
(* C8: no two rows share an audit ID; a step changes the set of stored     *)
(* audit IDs only by adding the one audit ID that a /calculate answers 200 *)
(* with in that step, and no row is ever removed.                          *)
StoredAuditIDs(table) == {table[i].auditID : i \in 1 .. Len(table)}

-----------------------------------------------------------------------------
(* C9: idempotence.  When an /update is answered after an /update with the *)
(* same audit ID, pre-hash and amendment was answered 200, it is answered  *)
(* 200 too (unless a collaborator throws, which is the catch's 500), and   *)
(* the row is what one application made it: the row as inserted with the   *)
(* amendment in place; the other rows are untouched.                       *)
SameAmendment(u, v) ==
  /\ u # v
  /\ IsUpdate(u)
  /\ IsUpdate(v)
  /\ req[u].data = req[v].data

C9_AmendIdempotent ==
  [][\A u, v \in Reqs :
       SameAmendment(u, v) /\ Answered(u, 200) /\ Answers(v)
         => /\ Status(v)' = 200
            /\ Len(db') = Len(db)
            /\ \A i \in 1 .. Len(db) :
                 db'[i] = IF db[i].auditID = req[v].data.auditID
                          THEN [created[i] EXCEPT !.preventableFactors =
                                                    req[v].data.preventableFactors]
                          ELSE db[i]]_vars

C9_Witness ==
  \E u, v \in Reqs :
    /\ SameAmendment(u, v)
    /\ Answered(u, 200)
    /\ Answered(v, 200)
    /\ \E i \in RowsOf(db, req[v].data.auditID) :
         db[i].preventableFactors = req[v].data.preventableFactors

-----------------------------------------------------------------------------
(* C10: a /calculate with a postcode whose getImdDecile lookup fails (the  *)
(* lookup is the last call the handler made) is still answered 200 with an *)
(* audit ID, and the row of that audit ID is stored without a decile.      *)
LookupFailed(r) ==
  /\ IsCalculate(r)
  /\ Truthy(req[r].data.patientPostcode)
  /\ pc[r] = "done"
  /\ calls[r][Len(calls[r])] = "getImdDecile"

C10_LookupFailureDoesNotBlock ==
  \A r \in Reqs :
    LookupFailed(r)
      => /\ Answered(r, 200)
         /\ \E i \in RowsOf(db, resp[r][1].body.auditID) : db[i].imdDecile = Null

-----------------------------------------------------------------------------
(* C11: after a /calculate answered 200, each of bicarbonate, glucose and  *)
(* ketones is stored as null exactly when the submission left it out, and  *)
(* a field submitted as zero is stored as zero.                            *)
OptionalNumericFields == {"bicarbonate", "glucose", "ketones"}

C11_OmissionDistinctFromZero ==
  \A c \in Reqs :
    IsCalculate(c) /\ Answered(c, 200)
      => \A i \in RowsOf(db, resp[c][1].body.auditID), f \in OptionalNumericFields :
           /\ db[i].inputs[f] = Null <=> req[c].data[f] = Undefined
           /\ req[c].data[f] = Num(0) => db[i].inputs[f] = Num(0)

-----------------------------------------------------------------------------
(* C12: when a collaborator throws (getImdDecile, generateAuditID or       *)
(* insertCalculateData in /calculate, updateCheck or updateData in         *)
(* /update), the request is answered 500, once, and the table is left as   *)
(* it was: no row is added and no row is changed.                          *)
Rejects(r) ==
  \/ GetImdDecileThrows(r)
  \/ GenerateAuditIDThrows(r)
  \/ InsertCalculateDataThrows(r)
  \/ UpdateCheckThrows(r)
  \/ UpdateDataThrows(r)

LastCall(r) == calls[r][Len(calls[r])]

C12_FailureKeepsNoPartialState ==
  [][\A r \in Reqs :
       Rejects(r)
         => /\ pc'[r] = "done"
            /\ Len(resp'[r]) = 1
            /\ Status(r)' = 500
            /\ db' = db]_vars

C12_Witness ==
  \E c, u \in Reqs :
    /\ IsCalculate(c) /\ Answered(c, 500) /\ LastCall(c) = "insertCalculateData"
    /\ IsUpdate(u) /\ Answered(u, 500) /\ LastCall(u) = "updateData"
    /\ db = created
    /\ Len(db) = 1

-----------------------------------------------------------------------------
(* C13: the patientHash stored by a /calculate answered 200 is the hex     *)
(* SHA-256 of the pre-hash followed by the salt when a pre-hash was        *)
(* submitted, and null otherwise; the value /update compares with is the   *)
(* same digest of its own pre-hash and the same salt.                      *)
SaltedDigest(preHash) == Sha256Hex(Str(preHash[2] \o Salt[2]))

C13_HashDerivation ==
  /\ \A c \in Reqs :
       IsCalculate(c) /\ Answered(c, 200)
         => /\ RowsOf(db, resp[c][1].body.auditID) # {}
            /\ \A i \in RowsOf(db, resp[c][1].body.auditID) :
                 db[i].patientHash =
                   IF req[c].data.patientHash = Undefined THEN Null
                   ELSE SaltedDigest(req[c].data.patientHash)
  /\ \A u \in Reqs :
       IsUpdate(u) /\ pc[u] = "updateData"
         => /\ loc[u].patientHash = SaltedDigest(req[u].data.patientHash)
            /\ loc[u].check[2].patientHash = loc[u].patientHash

C13_Witness ==
  \E c, u \in Reqs :
    /\ IsCalculate(c) /\ Answered(c, 200)
    /\ req[c].data.patientHash # Undefined
    /\ IsUpdate(u) /\ pc[u] = "updateData"
    /\ req[u].data.auditID = resp[c][1].body.auditID
    /\ \E i \in RowsOf(db, req[u].data.auditID) :
         db[i].patientHash = loc[u].patientHash

-----------------------------------------------------------------------------
(* C14: no response carries a patient hash.  The 200 body of /calculate    *)
(* holds the audit ID and the calculations and nothing else; the 404 and   *)
(* 401 bodies of /update hold their message and the submitted audit ID and *)
(* nothing else; no body of any status has a field for the pre-hash, the   *)
(* derived hash or the stored hash.                                        *)
BodyHidesHash(r, m) ==
  /\ "patientHash" \notin DOMAIN m.body
  /\ "check" \notin DOMAIN m.body
  /\ IsCalculate(r) /\ m.status = 200
       => /\ DOMAIN m.body = {"auditID", "calculations"}
          /\ m.body.auditID \in Nat
          /\ m.body.calculations = calculateVariables(req[r].data)
  /\ IsCalculate(r) /\ m.status = 400 => DOMAIN m.body = {"errors"}
  /\ IsUpdate(r) /\ m.status \in {404, 401}
       => /\ DOMAIN m.body = {"message", "auditID"}
          /\ m.body.auditID = req[r].data.auditID
  /\ IsUpdate(r) /\ m.status = 200 => m.body = [message |-> "Audit data update complete"]
  /\ m.status = 500 => DOMAIN m.body = {"message"}

C14_ResponsesHideHash ==
  \A r \in Reqs : \A k \in 1 .. Len(resp[r]) : BodyHidesHash(r, resp[r][k])

C14_Witness ==
  \E c, u \in Reqs :
    /\ IsCalculate(c) /\ Answered(c, 200)
    /\ Truthy(req[c].data.patientHash)
    /\ IsUpdate(u) /\ Answered(u, 401)
    /\ req[u].data.auditID = resp[c][1].body.auditID

-----------------------------------------------------------------------------
(* C15: last writer wins.  Of two /update requests on one audit ID that    *)
(* both passed the hash check, the one whose updateData commits leaves the *)
(* row's amendment equal to its own submitted amendment, whatever the      *)
(* other has written; and a stored amendment is always the whole amendment *)
(* of one request that was answered 200 for that audit ID.                 *)
PassedGate(u) == IsUpdate(u) /\ "updateData" \in Range(calls[u])

C15_LastWriterWins ==
  /\ [](\A i \in 1 .. Len(db) :
          db[i].preventableFactors # Null
            => \E u \in Reqs :
                 /\ PassedGate(u)
                 /\ Answered(u, 200)
                 /\ req[u].data.auditID = db[i].auditID
                 /\ req[u].data.preventableFactors = db[i].preventableFactors)
  /\ [][\A u, v \in Reqs :
          /\ u # v
          /\ PassedGate(u)
          /\ PassedGate(v)
          /\ req[u].data.auditID = req[v].data.auditID
          /\ pc[u] = "updateData"
          /\ Answered(u, 200)'
          => \A i \in RowsOf(db', req[u].data.auditID) :
               db'[i].preventableFactors = req[u].data.preventableFactors]_vars

\* The request that arrived first wrote last, over the other's amendment.
C15_Witness ==
  \E u, v \in Reqs :
    /\ u < v
    /\ PassedGate(u) /\ Answered(u, 200)
    /\ PassedGate(v) /\ Answered(v, 200)
    /\ req[u].data.auditID = req[v].data.auditID
    /\ req[u].data.preventableFactors # req[v].data.preventableFactors
    /\ \E i \in RowsOf(db, req[u].data.auditID) :
         db[i].preventableFactors = req[u].data.preventableFactors

-----------------------------------------------------------------------------
(* C16: requests on different audit IDs are independent.  A step of an     *)
(* /update on audit ID A leaves every row with another audit ID as it was  *)
(* and adds none; a step of a /calculate leaves every row there is as it   *)
(* was, and the row it adds has an audit ID no other row has.              *)
StepOf(r) == pc'[r] # pc[r]

C16_OtherRecordsUntouched ==
  [][\A r \in Reqs :
       StepOf(r)
         => /\ IsUpdate(r)'
              => /\ Len(db') = Len(db)
                 /\ \A i \in 1 .. Len(db) :
                      db[i].auditID # req'[r].data.auditID => db'[i] = db[i]
            /\ IsCalculate(r)'
              => /\ Len(db') >= Len(db)
                 /\ \A i \in 1 .. Len(db) : db'[i] = db[i]
                 /\ \A j \in Len(db) + 1 .. Len(db') :
                      \A i \in 1 .. Len(db) : db[i].auditID # db'[j].auditID]_vars

\* An update was answered 200 for one row while another row, created by a
\* /calculate of this run, is as it was inserted.
C16_Witness ==
  \E u, c \in Reqs :
    /\ IsUpdate(u) /\ Answered(u, 200)
    /\ IsCalculate(c) /\ Answered(c, 200)
    /\ resp[c][1].body.auditID # req[u].data.auditID
    /\ \E i \in RowsOf(db, req[u].data.auditID) :
         db[i].preventableFactors = req[u].data.preventableFactors
    /\ \E j \in RowsOf(db, resp[c][1].body.auditID) : db[j] = created[j]

-----------------------------------------------------------------------------
(* C17: the 200 of /calculate is sent only once the record is in the       *)
(* table: whenever a /calculate has sent a 200 carrying an audit ID, a row *)
(* with that audit ID is stored.  Hence an /update that arrives after that *)
(* response finds the record (existed), and an /update whose record was    *)
(* there when it arrived is never answered 404.                            *)
Sent200(c) ==
  {resp[c][k].body.auditID : k \in {j \in 1 .. Len(resp[c]) : resp[c][j].status = 200}}

C17_RecordCommittedBeforeResponse ==
  /\ [](\A c \in Reqs :
          IsCalculate(c) => \A a \in Sent200(c) : RowsOf(db, a) # {})
  /\ [][\A u, c \in Reqs :
          /\ pc[u] = "idle"
          /\ IsUpdate(u)'
          /\ IsCalculate(c)
          /\ req'[u].data.auditID \in Sent200(c)
          => req'[u].existed]_vars
  /\ [](\A u \in Reqs : IsUpdate(u) /\ req[u].existed => ~Answered(u, 404))

\* An /update that arrived after the 200 of the /calculate that created its
\* record has been answered 200.
C17_Witness ==
  \E c, u \in Reqs :
    /\ IsCalculate(c) /\ Answered(c, 200)
    /\ IsUpdate(u) /\ req[u].existed
    /\ req[u].data.auditID \in Sent200(c)
    /\ Answered(u, 200)

-----------------------------------------------------------------------------
(* C18: provided every collaborator call eventually returns or throws,     *)
(* every request that has arrived is eventually answered, and it is        *)
(* answered exactly once: no request ever has two responses, a handler     *)
(* that has finished has sent one, and its status is 200, 400 or 500 for   *)
(* /calculate and 200, 404, 401 or 500 for /update.                        *)
StatusesOf(r) ==
  IF IsCalculate(r) THEN {200, 400, 500} ELSE {200, 404, 401, 500}

C18_ExactlyOneResponse ==
  /\ [](\A r \in Reqs :
          /\ Len(resp[r]) <= 1
          /\ pc[r] = "done" <=> Len(resp[r]) = 1
          /\ Len(resp[r]) = 1 => resp[r][1].status \in StatusesOf(r))
  /\ \A r \in Reqs :
       (pc[r] # "idle") ~> (pc[r] = "done" /\ Len(resp[r]) = 1)

\* A /calculate that ended in the catch and an /update that ended at the
\* 404 each hold their one response.
C18_Witness ==
  \E c, u \in Reqs :
    /\ IsCalculate(c) /\ Answered(c, 500) /\ Len(resp[c]) = 1
    /\ IsUpdate(u) /\ Answered(u, 404) /\ Len(resp[u]) = 1

====
